---- MODULE Spec2Model ----
(***************************************************************************)
(* State-machine model of the realtime WebRTC session hook                 *)
(* (useRealtimeWebRTC in src/src/pages/ConsolePage.tsx) and of the page    *)
(* controls that drive it.                                                 *)
(*                                                                         *)
(* The file holds two versions of the hook: the one the page calls         *)
(* (lines 217-367: credential fetch, try/catch around connect) and a       *)
(* second one (lines 383-513: long-lived apiKey, no try/catch).  The       *)
(* variable `variant` says which of the two is running; everything else    *)
(* is shared because the rest of the code is identical.                    *)
(*                                                                         *)
(* All code runs on one event loop.  An action is one synchronous run of   *)
(* a handler or of the continuation of an `await`; between two actions     *)
(* any other handler may run.  Every connect() call that passes its guard  *)
(* is an attempt a \in Attempts; the RTCPeerConnection and RTCDataChannel  *)
(* that attempt creates are identified by a as well.                       *)
(*                                                                         *)
(* The page calls connect, disconnect, sendEvent and setIsMuted only       *)
(* while it is mounted (the guards `mounted`); continuations of a          *)
(* connect() in flight and channel listeners keep running after the        *)
(* unmount.                                                                *)
(*                                                                         *)
(* The specifications of the hook share Init and the hook's actions:       *)
(* SpecSession (the session lifecycle under concurrent connect() calls),   *)
(* Spec (sessions and the events they carry; SpecLive adds the progress    *)
(* the runtime guarantees), SpecMute (sessions and the Mute button),       *)
(* SpecAll (every operation, with a reconnect) and SpecAudio (sessions and *)
(* the arrival of remote media).  SpecServer joins the credential          *)
(* endpoint (src/server/index.ts) to the lifecycle.  The signal normalizer *)
(* and the renderer (src/unnamed/part_001) have their own specifications:  *)
(* SpecNormalize (normalizeFrequencyData), SpecResample (normalizeArray),  *)
(* SpecMemo (normalizeArray with its WeakMap cache) and SpecBars           *)
(* (drawBars) apply one function to inputs drawn in their initial states;  *)
(* SpecRender is the render loop of useWebRTCWaveRenderer with its         *)
(* analyzers.                                                              *)
(***************************************************************************)
EXTENDS Integers, Sequences, FiniteSets, TLC

\* ---------------------------------------------------------------- bounds
MaxAttempts == 2      \* connect() calls that pass the guard, in SpecSession
MaxSessions == 1      \* connect() calls that pass the guard, in Spec
MaxEvents == 2        \* entries of the observable event sequence
MaxBins == 2          \* length of a frequency snapshot, in SpecNormalize
MaxSamples == 44      \* length of a sample buffer, in SpecResample
MaxShort == 3         \* length up to which every buffer over Samples is taken
MaxCalls == 3         \* calls of normalizeArray, in SpecMemo
MaxWidth == 120       \* canvas width in pixels, in SpecBars
MaxFrames == 2        \* runs of render(), in SpecRender
MaxAnalyzers == 2     \* calls of setupAnalyzer, in SpecRender

Attempts == 1..(IF MaxAttempts > MaxSessions THEN MaxAttempts ELSE MaxSessions)
NoRef == 0            \* a ref holding null

ClientEvents_withSessionUpdate == {"response.create", "session.update"}

\* Events passed to sendEvent(event: any): the one the Force Reply button
\* sends and one other client event.
ClientEvents == {"response.create", "conversation.item.create"}
\* Payloads the remote endpoint delivers on the channel.  "malformed" is a
\* payload that is not JSON; the others are JSON events named by type (and
\* tool name for function-call completions).
ServerPayloads == {"fcall.set_memory", "fcall.unknown_tool", "response.done", "malformed"}
\* The payloads that are JSON.
JsonPayloads == ServerPayloads \ {"malformed"}
\* Names of the tools the page registers.
RegisteredTools == {"set_memory"}

VARIABLES
  variant,            \* 1: hook with credential fetch; 2: hook with apiKey
  mounted,            \* the component using the hook is mounted
  peerConnectionRef,  \* peerConnectionRef.current: NoRef or an attempt's pc
  dataChannelRef,     \* dataChannelRef.current: NoRef or an attempt's dc
  isConnected,        \* React state isConnected
  isMuted,            \* React state isMuted
  pcState,            \* per attempt: "none" | "open" | "closed"
  dcState,            \* per attempt: "none" | "connecting" | "open" | "closed"
  trackAttached,      \* per attempt: a local audio track was added to the pc
  trackEnabled,       \* per attempt: MediaStreamTrack.enabled of that track
  nAttempts,          \* attempts started so far
  pos,                \* per attempt: the await it is suspended at, or "unused"/"done"
  outcome,            \* per attempt: "pending" | "connected" | "credentialNotOk" | "failed"
  micDenied,          \* per attempt: getUserMedia rejected
  answer,             \* per attempt: "none" | "valid" | "invalid" SDP answer received
  realtimeEvents,     \* the observable event sequence (setRealtimeEvents)
  wire,               \* messages handed to RTCDataChannel.send, in order
  sendResult,         \* what the last sendEvent() call did: "none" | "sent" |
                      \* "silentlyDropped" | "error" (an error reached the caller)
  listenerThrew,      \* a message listener ended by an uncaught exception
  delivered,          \* history: the JSON payloads the channels delivered, in order
  toolInvocations,    \* calls of a registered tool's fn
  disconnectedDuring, \* history, per attempt: disconnect() was called while the
                      \* attempt was suspended at one of its awaits
  srvPos,             \* per request of POST /api/session: "idle" | "upstream" |
                      \* "json" | "done", the handler's position
  srvUpstream,        \* per request: what the upstream issuer call did: "none" |
                      \* "ok" | "notOk" | "rejected" | "badBody"
  srvResponses,       \* per request: the responses the handler sent, in order
  freqData,           \* the Float32Array of decibel values given to normalizeFrequencyData
  normalized,         \* the array normalizeFrequencyData returned
  nfCalled,           \* normalizeFrequencyData has returned
  rsData,             \* normalizeArray's argument data, a buffer of samples
  rsM,                \* normalizeArray's argument m, the number of buckets
  rsPeaks,            \* normalizeArray's argument downsamplePeaks
  rsResult,           \* the array normalizeArray returned
  rsCalled,           \* normalizeArray has returned
  buffers,            \* per buffer identity: the samples the Float32Array holds
  dataMap,            \* the WeakMap: buffer identity -> mKey -> dKey -> array identity
  arrays,             \* the arrays normalizeArray allocated, by identity (position)
  returned,           \* identity of the array the last call returned, 0 before a call
  lastCall,           \* arguments of the last call
  nCalls,             \* calls of normalizeArray so far
  audioSrc,           \* audioRef.current.srcObject: NoRef or the remote stream of an attempt's pc
  audioContext,       \* audioContextRef.current: "none" | "running" | "closed"
  localAnalyzerRef,   \* localAnalyzerRef.current: NoBinding or an AudioAnalyzer
  remoteAnalyzerRef,  \* remoteAnalyzerRef.current: NoBinding or an AudioAnalyzer
  nAnalyzers,         \* AudioAnalyzer objects setupAnalyzer has created
  isLoaded,           \* the render effect's flag isLoaded
  rafPending,         \* a requestAnimationFrame(render) callback is scheduled
  frames,             \* history: runs of render() so far
  localCanvas,        \* localCanvasRef.current: [width, height] of the canvas
  remoteCanvas,       \* remoteCanvasRef.current: [width, height] of the canvas
  offsetSize,         \* [width, height] the layout gives both canvases
  barsCanvas,         \* drawBars' argument canvas: [width, height]
  barsData,           \* drawBars' argument data
  barsPrev,           \* drawBars' argument prevHeights
  barsResult,         \* what drawBars did: the array returned, or the error thrown
  barsCalled          \* drawBars has been called

sessVars == <<peerConnectionRef, dataChannelRef, isConnected, pcState, dcState>>
trackVars == <<trackAttached, trackEnabled>>
attVars == <<nAttempts, pos, outcome, micDenied, answer>>
evVars == <<realtimeEvents, wire, sendResult, listenerThrew, delivered, toolInvocations>>
uiVars == <<variant, mounted, isMuted>>
histVars == <<disconnectedDuring>>
srvVars == <<srvPos, srvUpstream, srvResponses>>
nfVars == <<freqData, normalized, nfCalled>>
rsVars == <<rsData, rsM, rsPeaks, rsResult, rsCalled>>
memoVars == <<buffers, dataMap, arrays, returned, lastCall, nCalls>>
tapVars == <<audioSrc, audioContext, localAnalyzerRef, remoteAnalyzerRef, nAnalyzers>>
loopVars == <<isLoaded, rafPending, frames, localCanvas, remoteCanvas, offsetSize>>
barVars == <<barsCanvas, barsData, barsPrev, barsResult, barsCalled>>
vizVars == <<tapVars, loopVars, barVars>>
sideVars == <<srvVars, nfVars, rsVars, memoVars, vizVars>>
vars == <<sessVars, trackVars, attVars, evVars, uiVars, histVars, sideVars>>

\* ------------------------------------------------------- session as value
\* The part of the state connect() and disconnect() write, as one record, so
\* that disconnect can be applied to its own result.
Session ==
  [pcRef |-> peerConnectionRef, dcRef |-> dataChannelRef, connected |-> isConnected,
   pcs |-> pcState, dcs |-> dcState]

SetSession(s) ==
  /\ peerConnectionRef' = s.pcRef
  /\ dataChannelRef' = s.dcRef
  /\ isConnected' = s.connected
  /\ pcState' = s.pcs
  /\ dcState' = s.dcs

\* RTCDataChannel.close(): no effect on a closed channel.
closeChannel(dcs, d) ==
  IF d # NoRef /\ dcs[d] \in {"connecting", "open"} THEN [dcs EXCEPT ![d] = "closed"] ELSE dcs

\* RTCPeerConnection.close(): closes the connection and its data channels.
closePeer(s, p) ==
  IF p = NoRef THEN s
  ELSE [s EXCEPT !.pcs = [s.pcs EXCEPT ![p] = "closed"], !.dcs = closeChannel(s.dcs, p)]

disconnect_keepsChannelRef(s) ==
  LET s1 == [s EXCEPT !.dcs = closeChannel(s.dcs, s.dcRef)]
      s2 == closePeer(s1, s.pcRef)
  IN [s2 EXCEPT !.pcRef = NoRef, !.connected = FALSE]

\* disconnect(): close the channel and the transport the refs hold, clear the
\* refs, setIsConnected(false).
disconnect(s) ==
  LET s1 == [s EXCEPT !.dcs = closeChannel(s.dcs, s.dcRef)]
      s2 == closePeer(s1, s.pcRef)
  IN [s2 EXCEPT !.pcRef = NoRef, !.dcRef = NoRef, !.connected = FALSE]

onConnectError_noTeardown(s) == s

\* What an exception inside connect() does: variant 1 catches it and calls
\* disconnect(); variant 2 has no try/catch, the promise rejects and nothing
\* is torn down.
onConnectError(s) == IF variant = 1 THEN disconnect(s) ELSE s

\* new RTCPeerConnection(); peerConnectionRef.current = pc;
\* dc = pc.createDataChannel(..); dataChannelRef.current = dc.
createTransport(s, a) ==
  [s EXCEPT !.pcRef = a, !.dcRef = a,
            !.pcs = [s.pcs EXCEPT ![a] = "open"],
            !.dcs = [s.dcs EXCEPT ![a] = "connecting"]]

micCatch_teardown(s) == disconnect(s)

\* catch (err) { console.error("Error accessing microphone:", err) }: the
\* microphone error is logged and connect() goes on.
micCatch(s) == s

\* ------------------------------------------------------------------ Init
\* The hook, the page and the credential endpoint before the first call.
InitHook ==
  /\ mounted = TRUE
  /\ peerConnectionRef = NoRef
  /\ dataChannelRef = NoRef
  /\ isConnected = FALSE
  /\ isMuted = FALSE
  /\ pcState = [a \in Attempts |-> "none"]
  /\ dcState = [a \in Attempts |-> "none"]
  /\ trackAttached = [a \in Attempts |-> FALSE]
  /\ trackEnabled = [a \in Attempts |-> FALSE]
  /\ nAttempts = 0
  /\ pos = [a \in Attempts |-> "unused"]
  /\ outcome = [a \in Attempts |-> "pending"]
  /\ micDenied = [a \in Attempts |-> FALSE]
  /\ answer = [a \in Attempts |-> "none"]
  /\ realtimeEvents = <<>>
  /\ wire = <<>>
  /\ sendResult = "none"
  /\ listenerThrew = FALSE
  /\ delivered = <<>>
  /\ toolInvocations = 0
  /\ disconnectedDuring = [a \in Attempts |-> FALSE]
  /\ srvPos = [a \in Attempts |-> "idle"]
  /\ srvUpstream = [a \in Attempts |-> "none"]
  /\ srvResponses = [a \in Attempts |-> <<>>]

\* normalizeFrequencyData before any call.
InitNormalizer ==
  /\ freqData = <<>>
  /\ normalized = <<>>
  /\ nfCalled = FALSE

\* normalizeArray before any call.
InitResampler ==
  /\ rsData = <<>>
  /\ rsM = 0
  /\ rsPeaks = FALSE
  /\ rsResult = <<>>
  /\ rsCalled = FALSE

\* Buffer identities and what a buffer can hold in the memoization model.
BufferIds == {1, 2}
BufferContents == {<<1, -2>>, <<0, 2>>}
NoCall == [data |-> 0, m |-> 0, downsamplePeaks |-> FALSE, memoize |-> FALSE]

\* const dataMap = new WeakMap(): nothing cached, nothing allocated.
InitMemo ==
  /\ buffers = [b \in BufferIds |-> <<1, -2>>]
  /\ dataMap = <<>>
  /\ arrays = <<>>
  /\ returned = 0
  /\ lastCall = NoCall
  /\ nCalls = 0

\* An absent AudioAnalyzer (the ref holds undefined) and an absent
\* prevHeights.
Undefined == [defined |-> FALSE, values |-> <<>>]
Defined(h) == [defined |-> TRUE, values |-> h]
NoBinding == [id |-> 0, stream |-> NoRef, dataArray |-> <<>>, prevHeights |-> Undefined]

\* A <canvas> without width and height attributes (ConsolePage.tsx 140-149)
\* has the default bitmap size.
DefaultCanvasWidth == 300
DefaultCanvasHeight == 150
DefaultCanvas == [width |-> DefaultCanvasWidth, height |-> DefaultCanvasHeight]

\* useWebRTCWaveRenderer and the <audio> element after the first render of
\* the page: no AudioContext, no analyzer, the first frame requested.
InitTap ==
  /\ audioSrc = NoRef
  /\ audioContext = "none"
  /\ localAnalyzerRef = NoBinding
  /\ remoteAnalyzerRef = NoBinding
  /\ nAnalyzers = 0

InitLoop ==
  /\ isLoaded = TRUE
  /\ rafPending = TRUE
  /\ frames = 0
  /\ localCanvas = DefaultCanvas
  /\ remoteCanvas = DefaultCanvas
  /\ offsetSize = DefaultCanvas

\* A height or width the code holds as a float: the exact fraction num/den;
\* den = 0 stands for a value that is not finite (NaN, Infinity).
NaN == [num |-> 0, den |-> 0]
NoResult == [threw |-> FALSE, pointCount |-> 0, barWidth |-> NaN, heights |-> Undefined]

\* drawBars before any call.
InitBars ==
  /\ barsCanvas = DefaultCanvas
  /\ barsData = <<>>
  /\ barsPrev = Undefined
  /\ barsResult = NoResult
  /\ barsCalled = FALSE

InitVisual == InitTap /\ InitLoop /\ InitBars

Init ==
  /\ variant \in {1, 2}
  /\ InitHook /\ InitNormalizer /\ InitResampler /\ InitMemo /\ InitVisual

\* --------------------------------------------------------------- connect
Goto_skipping(a, p) ==
  pos' = [pos EXCEPT ![a] = IF p = "setLocalDescription" THEN "sdpFetch" ELSE p]

\* The attempt moves on to its next await.
Goto(a, p) == pos' = [pos EXCEPT ![a] = p]

\* The attempt ends by an exception thrown inside connect().
Throw(a, why) ==
  /\ SetSession(onConnectError(Session))
  /\ pos' = [pos EXCEPT ![a] = "done"]
  /\ outcome' = [outcome EXCEPT ![a] = why]

\* connect(), up to its first await.  Variant 1 suspends at the credential
\* fetch; variant 2 creates the transport and suspends at getUserMedia.
connect(bound) ==
  /\ mounted
  /\ IF peerConnectionRef # NoRef
       THEN UNCHANGED vars
       ELSE /\ nAttempts < bound
            /\ nAttempts' = nAttempts + 1
            /\ IF variant = 1
                 THEN /\ Goto(nAttempts + 1, "fetch")
                      /\ UNCHANGED sessVars
                 ELSE /\ Goto(nAttempts + 1, "getUserMedia")
                      /\ SetSession(createTransport(Session, nAttempts + 1))
            /\ UNCHANGED <<outcome, micDenied, answer, trackVars, evVars, uiVars, histVars, sideVars>>

\* Continuation of `await fetch('/api/session')`: the fetch rejected, or
\* answered with a non-2xx status, or answered 2xx.
afterCredentialFetch(a, r) ==
  /\ pos[a] = "fetch"
  /\ CASE r = "ok" -> Goto(a, "json") /\ UNCHANGED <<sessVars, outcome>>
       [] r = "notOk" -> Throw(a, "credentialNotOk")
       [] r = "rejected" -> Throw(a, "failed")
  /\ UNCHANGED <<nAttempts, micDenied, answer, trackVars, evVars, uiVars>>
  /\ UNCHANGED <<histVars, sideVars>>

\* Continuation of `await response.json()`: reads client_secret.value, creates
\* the peer connection and the data channel, stores both in the refs, attaches
\* the listeners and calls getUserMedia.
afterCredentialJson(a, ok) ==
  /\ pos[a] = "json"
  /\ IF ok
       THEN /\ SetSession(createTransport(Session, a))
            /\ Goto(a, "getUserMedia")
            /\ UNCHANGED outcome
       ELSE Throw(a, "failed")
  /\ UNCHANGED <<nAttempts, micDenied, answer, trackVars, evVars, uiVars>>
  /\ UNCHANGED <<histVars, sideVars>>

\* Continuation of `await getUserMedia`: adds the tracks to the pc (addTrack
\* throws on a closed pc), or lands in the inner catch; then calls createOffer.
afterGetUserMedia(a, granted) ==
  /\ pos[a] = "getUserMedia"
  /\ IF granted /\ pcState[a] = "open"
       THEN /\ trackAttached' = [trackAttached EXCEPT ![a] = TRUE]
            /\ trackEnabled' = [trackEnabled EXCEPT ![a] = TRUE]
            /\ UNCHANGED <<sessVars, micDenied>>
       ELSE /\ SetSession(micCatch(Session))
            /\ micDenied' = [micDenied EXCEPT ![a] = ~granted]
            /\ UNCHANGED trackVars
  /\ Goto(a, "createOffer")
  /\ UNCHANGED <<nAttempts, outcome, answer, evVars, uiVars>>
  /\ UNCHANGED <<histVars, sideVars>>

\* Continuation of `await pc.createOffer()`; it can only succeed on a pc that
\* is not closed.
afterCreateOffer(a, ok) ==
  /\ pos[a] = "createOffer"
  /\ IF ok /\ pcState[a] = "open"
       THEN Goto(a, "setLocalDescription") /\ UNCHANGED <<sessVars, outcome>>
       ELSE Throw(a, "failed")
  /\ UNCHANGED <<nAttempts, micDenied, answer, trackVars, evVars, uiVars>>
  /\ UNCHANGED <<histVars, sideVars>>

\* Continuation of `await pc.setLocalDescription(offer)`; then the offer is
\* posted to the negotiation endpoint.
afterSetLocalDescription(a, ok) ==
  /\ pos[a] = "setLocalDescription"
  /\ IF ok /\ pcState[a] = "open"
       THEN Goto(a, "sdpFetch") /\ UNCHANGED <<sessVars, outcome>>
       ELSE Throw(a, "failed")
  /\ UNCHANGED <<nAttempts, micDenied, answer, trackVars, evVars, uiVars>>
  /\ UNCHANGED <<histVars, sideVars>>

\* Continuation of the negotiation POST.  Variant 1 throws on a non-2xx
\* status; variant 2 does not look at the status and reads the body.
afterSdpFetch(a, r) ==
  /\ pos[a] = "sdpFetch"
  /\ CASE r = "rejected" -> Throw(a, "failed") /\ UNCHANGED answer
       [] r = "notOk" /\ variant = 1 -> Throw(a, "failed") /\ UNCHANGED answer
       [] r = "notOk" /\ variant = 2 ->
            /\ Goto(a, "sdpText")
            /\ answer' = [answer EXCEPT ![a] = "invalid"]
            /\ UNCHANGED <<sessVars, outcome>>
       [] r = "ok" -> Goto(a, "sdpText") /\ UNCHANGED <<sessVars, outcome, answer>>
  /\ UNCHANGED <<nAttempts, micDenied, trackVars, evVars, uiVars>>
  /\ UNCHANGED <<histVars, sideVars>>

\* Continuation of `await sdpResponse.text()`: the body is an SDP answer the
\* pc accepts, or one it does not, or reading the body failed; then
\* pc.setRemoteDescription(answer) is called.
afterSdpText(a, r) ==
  /\ pos[a] = "sdpText"
  /\ IF r = "rejected"
       THEN Throw(a, "failed") /\ UNCHANGED answer
       ELSE /\ Goto(a, "setRemoteDescription")
            /\ answer' = [answer EXCEPT ![a] = IF answer[a] = "invalid" THEN "invalid" ELSE r]
            /\ UNCHANGED <<sessVars, outcome>>
  /\ UNCHANGED <<nAttempts, micDenied, trackVars, evVars, uiVars>>
  /\ UNCHANGED <<histVars, sideVars>>

sessionUpdate(a) == [dc |-> a, by |-> "connect", event |-> "session.update"]

\* Continuation of `await pc.setRemoteDescription(answer)`:
\* setIsConnected(true), and the initial configuration is sent if the
\* attempt's channel is open at that moment.
afterSetRemoteDescription(a) ==
  /\ pos[a] = "setRemoteDescription"
  /\ IF answer[a] = "valid" /\ pcState[a] = "open"
       THEN /\ isConnected' = TRUE
            /\ wire' = IF dcState[a] = "open" THEN Append(wire, sessionUpdate(a)) ELSE wire
            /\ pos' = [pos EXCEPT ![a] = "done"]
            /\ outcome' = [outcome EXCEPT ![a] = "connected"]
            /\ UNCHANGED <<peerConnectionRef, dataChannelRef, pcState, dcState>>
       ELSE Throw(a, "failed") /\ UNCHANGED wire
  /\ UNCHANGED <<nAttempts, micDenied, answer, trackVars, uiVars>>
  /\ UNCHANGED <<realtimeEvents, sendResult, listenerThrew, delivered, toolInvocations>>
  /\ UNCHANGED <<histVars, sideVars>>

\* ------------------------------------------------- disconnect and unmount
\* The attempts suspended at an await.
InFlight == {a \in Attempts : pos[a] \notin {"unused", "done"}}

\* History: a disconnect() call is noted for every attempt in flight.
NoteDisconnect ==
  disconnectedDuring' = [a \in Attempts |-> disconnectedDuring[a] \/ a \in InFlight]

\* disconnect() called by the page.
Disconnect ==
  /\ mounted
  /\ SetSession(disconnect(Session))
  /\ NoteDisconnect
  /\ UNCHANGED <<trackVars, attVars, evVars, uiVars, sideVars>>

\* The cleanup of the hook's effect: the component unmounts and disconnect()
\* runs.  Suspended connect() continuations and channel listeners stay alive.
Unmount ==
  /\ mounted
  /\ mounted' = FALSE
  /\ SetSession(disconnect(Session))
  /\ NoteDisconnect
  /\ UNCHANGED <<trackVars, attVars, evVars, variant, isMuted, sideVars>>

\* ---------------------------------------------------------------- events
channelIsOpen_anyChannel(ref, dcs) == ref # NoRef

\* dataChannelRef.current?.readyState === "open"
channelIsOpen(ref, dcs) == ref # NoRef /\ dcs[ref] = "open"

recordClient_dropped(events, e) == events

recordClient_replacing(events, e) == <<[source |-> "client", event |-> e]>>

\* setRealtimeEvents(prev => [...prev, {source: 'client', event}])
recordClient(events, e) == Append(events, [source |-> "client", event |-> e])

\* sendEvent(event): sends and records when the channel the ref holds is
\* open; otherwise falls through the `if` and returns undefined.
SendEvent(e) ==
  /\ mounted
  /\ IF channelIsOpen(dataChannelRef, dcState)
       THEN /\ Len(realtimeEvents) < MaxEvents
            /\ wire' = Append(wire, [dc |-> dataChannelRef, by |-> "sendEvent", event |-> e])
            /\ realtimeEvents' = recordClient(realtimeEvents, e)
            /\ sendResult' = "sent"
       ELSE /\ sendResult' = "silentlyDropped"
            /\ UNCHANGED <<wire, realtimeEvents>>
  /\ UNCHANGED <<sessVars, trackVars, attVars, uiVars, listenerThrew, delivered, toolInvocations>>
  /\ UNCHANGED <<histVars, sideVars>>

IsJson_lenient(m) == TRUE

\* JSON.parse(e.data) succeeds.
IsJson(m) == m # "malformed"

\* The payload is a response.function_call_arguments.done event whose name
\* is a registered tool.
IsRegisteredCall(m) == \E t \in RegisteredTools : m = "fcall." \o t

recordServer_prepended(events, m) == <<[source |-> "server", event |-> m]>> \o events

\* setRealtimeEvents(prev => [...prev, {source: 'server', event}])
recordServer(events, m) == Append(events, [source |-> "server", event |-> m])

\* The "message" listener of attempt a's channel: parse the payload and
\* append it, tagged 'server'.  JSON.parse throws on a payload that is not
\* JSON and the listener ends there.  No tool's fn is called.
onMessage(a, m) ==
  /\ dcState[a] = "open"
  /\ IF IsJson(m)
       THEN /\ Len(realtimeEvents) < MaxEvents
            /\ realtimeEvents' = recordServer(realtimeEvents, m)
            /\ delivered' = IF m \in JsonPayloads THEN Append(delivered, m) ELSE delivered
            /\ UNCHANGED listenerThrew
       ELSE /\ listenerThrew' = TRUE
            /\ UNCHANGED <<realtimeEvents, delivered>>
  /\ UNCHANGED toolInvocations
  /\ UNCHANGED <<sessVars, trackVars, attVars, uiVars, wire, sendResult>>
  /\ UNCHANGED <<histVars, sideVars>>

\* The browser opens attempt a's data channel.  The channel's transport is
\* negotiated from the remote answer, so this comes after the answer was
\* applied; the promise of setRemoteDescription is resolved in the task that
\* applies it and connect()'s continuation runs in that same task, before any
\* later event such as this one.
ChannelOpens(a) ==
  /\ dcState[a] = "connecting"
  /\ pcState[a] = "open"
  /\ outcome[a] = "connected"
  /\ dcState' = [dcState EXCEPT ![a] = "open"]
  /\ UNCHANGED <<peerConnectionRef, dataChannelRef, isConnected, pcState>>
  /\ UNCHANGED <<trackVars, attVars, evVars, uiVars>>
  /\ UNCHANGED <<histVars, sideVars>>

\* ------------------------------------------------------------------ mute
\* The Mute button: setIsMuted(!isMuted).  Nothing else reads isMuted.
ToggleMute ==
  /\ mounted
  /\ isMuted' = ~isMuted
  /\ UNCHANGED <<sessVars, trackVars, attVars, evVars, variant, mounted>>
  /\ UNCHANGED <<histVars, sideVars>>

\* ------------------------------------------- the credential endpoint
\* src/server/index.ts.  The request of attempt a's credential fetch is
\* request a of the endpoint.
Outcomes == {"ok", "notOk", "rejected"}

srvErrorResponse_asSuccess == [status |-> 200, credential |-> FALSE]

\* res.status(500).json({ error: 'Failed to generate session token' })
srvErrorResponse == [status |-> 500, credential |-> FALSE]

\* res.json(data): status 200, the body is the upstream session object with
\* its client_secret.
srvDataResponse == [status |-> 200, credential |-> TRUE]

\* The handler's catch block: log and answer with the error response.
srvCatch(a, why) ==
  /\ srvResponses' = [srvResponses EXCEPT ![a] = Append(@, srvErrorResponse)]
  /\ srvUpstream' = [srvUpstream EXCEPT ![a] = why]
  /\ srvPos' = [srvPos EXCEPT ![a] = "done"]

\* The request of attempt a's fetch reaches the handler (the client may have
\* given up on it by then), which runs up to `await fetch(<upstream issuer>)`.
srvRequest(a) ==
  /\ variant = 1 /\ pos[a] # "unused"
  /\ srvPos[a] = "idle"
  /\ srvPos' = [srvPos EXCEPT ![a] = "upstream"]
  /\ UNCHANGED <<srvUpstream, srvResponses>>
  /\ UNCHANGED <<sessVars, trackVars, attVars, evVars, uiVars, histVars, nfVars, rsVars, memoVars, vizVars>>

\* Continuation of the upstream fetch: it rejected, or answered with a
\* non-OK status (the handler throws), or answered OK and the body is read.
srvAfterUpstream(a, r) ==
  /\ srvPos[a] = "upstream"
  /\ IF r = "ok"
       THEN /\ srvPos' = [srvPos EXCEPT ![a] = "json"]
            /\ UNCHANGED <<srvUpstream, srvResponses>>
       ELSE srvCatch(a, r)
  /\ UNCHANGED <<sessVars, trackVars, attVars, evVars, uiVars, histVars, nfVars, rsVars, memoVars, vizVars>>

\* Continuation of `await response.json()`: the body parsed and is relayed,
\* or parsing rejected and the catch block answers.
srvAfterJson(a, ok) ==
  /\ srvPos[a] = "json"
  /\ IF ok
       THEN /\ srvResponses' = [srvResponses EXCEPT ![a] = Append(@, srvDataResponse)]
            /\ srvUpstream' = [srvUpstream EXCEPT ![a] = "ok"]
            /\ srvPos' = [srvPos EXCEPT ![a] = "done"]
       ELSE srvCatch(a, "badBody")
  /\ UNCHANGED <<sessVars, trackVars, attVars, evVars, uiVars, histVars, nfVars, rsVars, memoVars, vizVars>>

\* response.ok of the client's fetch: the status is in 200..299.
IsOkStatus(status) == status >= 200 /\ status <= 299

\* The client's fetch resolves with the response the endpoint sent.
fetchAnswered(a) ==
  /\ srvResponses[a] # <<>>
  /\ afterCredentialFetch(a, IF IsOkStatus(srvResponses[a][1].status) THEN "ok" ELSE "notOk")

\* The client's fetch rejects: the endpoint cannot be reached or the
\* connection breaks.
fetchRejected(a) == afterCredentialFetch(a, "rejected")

\* The client reads the body: data.client_secret.value throws on a body
\* without a credential, and response.json() can reject.
credentialRead(a, ok) ==
  /\ srvResponses[a] # <<>>
  /\ afterCredentialJson(a, ok /\ srvResponses[a][1].credential)

\* ------------------------------------------------ the signal normalizer
\* src/unnamed/part_001.  Decibel values are integers; NegInfinity stands for
\* the -Infinity getFloatFrequencyData writes for a silent bin.  A normalized
\* value is the exact fraction num/den; the code stores its nearest float32,
\* and rounding to nearest keeps order and leaves 0 and 1 as they are.
minDb == -100
maxDb == -30
NegInfinity == -1000
DbValues == {NegInfinity, -101, -100, -99, -65, -31, -30, -29}

Min(x, y) == IF x <= y THEN x ELSE y
Max(x, y) == IF x >= y THEN x ELSE y

clampDb_none(db) == db

\* Math.max(minDb, Math.min(maxDb, data[i]))
clampDb(db) == Max(minDb, Min(maxDb, db))

\* Math.pow((db - minDb) / (maxDb - minDb), 2)
normalizeDb(db) ==
  [num |-> (clampDb(db) - minDb) * (clampDb(db) - minDb),
   den |-> (maxDb - minDb) * (maxDb - minDb)]

\* normalizeFrequencyData(data): a new array of data.length values.
normalizeFrequencyData(d) == [i \in 1..Len(d) |-> normalizeDb(d[i])]

\* The frequency snapshots of at most MaxBins bins.
FrequencySnapshots == UNION {[1..n -> DbValues] : n \in 0..MaxBins}

\* One call of normalizeFrequencyData on the snapshot.
NormalizeFrequencyData ==
  /\ ~nfCalled
  /\ normalized' = normalizeFrequencyData(freqData)
  /\ nfCalled' = TRUE
  /\ UNCHANGED freqData
  /\ UNCHANGED <<sessVars, trackVars, attVars, evVars, uiVars, histVars, srvVars, rsVars, memoVars, vizVars>>

\* normalizeFrequencyData applied to every snapshot.
InitNormalize ==
  /\ variant = 1 /\ InitHook
  /\ freqData \in FrequencySnapshots
  /\ normalized = <<>>
  /\ nfCalled = FALSE
  /\ InitResampler /\ InitMemo /\ InitVisual

SpecNormalize == InitNormalize /\ [][NormalizeFrequencyData]_vars

\* ------------------------------------------------------ bucket resampling
\* normalizeArray(data, m, downsamplePeaks).  Samples are integers.  A value
\* of the result is the fraction num/den; den = 0 is the NaN of 0/0.
Abs(x) == IF x < 0 THEN -x ELSE x

RECURSIVE Pow2(_)
Pow2(k) == IF k = 0 THEN 1 ELSE 2 * Pow2(k - 1)

\* 2^k mod n
RECURSIVE PowMod2(_, _)
PowMod2(k, n) == IF k = 0 THEN 1 % n ELSE (2 * PowMod2(k - 1, n)) % n

\* The largest t with 2^t <= k, for k >= 1.
RECURSIVE Log2Floor(_)
Log2Floor(k) == IF k < 2 THEN 0 ELSE 1 + Log2Floor(k \div 2)

\* The s >= from with 2^-s <= m/n < 2^-(s-1), for m < n: -s is the binary
\* exponent of the quotient m / n.
RECURSIVE QuotientShift(_, _, _)
QuotientShift(m, n, from) == IF m * Pow2(from) >= n THEN from ELSE QuotientShift(m, n, from + 1)

\* Bits of the fraction of a binary64 Number.
FractionBits == 52

\* Math.floor(i * (m / n)) for 0 <= i < n and 1 <= m <= n, as binary64
\* arithmetic with rounding to nearest (ties to even) computes it.
\* Let k = floor(i*m/n).  When i*m/n is not an integer it is at least 1/n away
\* from the next integer, far more than the rounding errors, and the result is
\* k.  When i*m/n = k: the quotient q = m/n rounded to 53 significant bits is
\* m/n + d, and r below is the remainder of m * 2^(52+s) by n, so that d = 0
\* when r = 0, d > 0 when 2r > n (rounded up, 2r = n cannot happen), and
\* d = -(r/n) * 2^-(52+s) otherwise.  With d >= 0 the product i*q is at least
\* k and the result is k.  With d < 0 the product is k - i*|d|, which rounds
\* to k exactly when i*|d| is at most half the distance from k to the
\* Number below it (2^(t-52), or 2^(t-53) when k = 2^t), and otherwise to a
\* Number below k, whose floor is k - 1.
floorOfProduct(i, m, n) ==
  LET k == (i * m) \div n
  IN IF (i * m) % n # 0 \/ k = 0 \/ m = n THEN k
     ELSE LET s == QuotientShift(m, n, 1)
              r == (m * PowMod2(FractionBits + s, n)) % n
              t == Log2Floor(k)
              err == IF k = Pow2(t) THEN 4 * i * r ELSE 2 * i * r
          IN IF r = 0 \/ 2 * r > n \/ err <= n * Pow2(t + s) THEN k ELSE k - 1

RECURSIVE SumAbs(_, _)
SumAbs(d, S) ==
  IF S = {} THEN 0
  ELSE LET i == CHOOSE x \in S : TRUE IN Abs(d[i + 1]) + SumAbs(d, S \ {i})

RECURSIVE MaxAbs(_, _)
MaxAbs(d, S) ==
  IF S = {} THEN 0
  ELSE LET i == CHOOSE x \in S : TRUE IN Max(Abs(d[i + 1]), MaxAbs(d, S \ {i}))

\* The m <= n branch: every input i (counted from 0) goes to the bucket
\* Math.floor(i * (m / n)); a bucket holds the greatest |data[i]| of its
\* inputs, or their sum divided by their count.
downsample(d, m, peaks) ==
  LET n == Len(d)
      index == [i \in 0..(n - 1) |-> floorOfProduct(i, m, n)]
      inputs(b) == {i \in 0..(n - 1) : index[i] = b}
  IN [b1 \in 1..m |->
        IF peaks THEN [num |-> MaxAbs(d, inputs(b1 - 1)), den |-> 1]
        ELSE [num |-> SumAbs(d, inputs(b1 - 1)), den |-> Cardinality(inputs(b1 - 1))]]

\* The m > n branch: linear interpolation at index = i * (n - 1) / (m - 1)
\* between data[floor(index)] and data[ceil(index)], as an exact fraction
\* over m - 1; data[n - 1] when ceil(index) >= n.
upsample(d, m) ==
  LET n == Len(d)
      at(i) ==
        LET low == (i * (n - 1)) \div (m - 1)
            rem == (i * (n - 1)) % (m - 1)
            high == IF rem = 0 THEN low ELSE low + 1
        IN IF high >= n THEN [num |-> d[n], den |-> 1]
           ELSE [num |-> d[low + 1] * ((m - 1) - rem) + d[high + 1] * rem, den |-> m - 1]
  IN [i1 \in 1..m |-> at(i1 - 1)]

normalizeArray(d, m, peaks) == IF m <= Len(d) THEN downsample(d, m, peaks) ELSE upsample(d, m)

\* The buffer 1, -2, 3, -4, ... of n samples.
Ramp(n) == [i1 \in 1..n |-> IF i1 % 2 = 1 THEN i1 ELSE -i1]

Samples == {-2, 0, 1}

\* The buffers a call is made on: one buffer of every length up to
\* MaxSamples, and every buffer over Samples of a length up to MaxShort.
SampleBuffers ==
  {Ramp(n) : n \in 1..MaxSamples} \cup UNION {[1..n -> Samples] : n \in 1..MaxShort}

\* One call of normalizeArray.
NormalizeArray ==
  /\ ~rsCalled
  /\ rsResult' = normalizeArray(rsData, rsM, rsPeaks)
  /\ rsCalled' = TRUE
  /\ UNCHANGED <<rsData, rsM, rsPeaks>>
  /\ UNCHANGED <<sessVars, trackVars, attVars, evVars, uiVars, histVars, srvVars, nfVars, memoVars, vizVars>>

\* normalizeArray applied to a buffer with a bucket count of 1 to its length.
InitResample ==
  /\ variant = 1 /\ InitHook /\ InitNormalizer
  /\ rsData \in SampleBuffers
  /\ rsM \in 1..Len(rsData)
  /\ rsPeaks \in BOOLEAN
  /\ rsResult = <<>>
  /\ rsCalled = FALSE
  /\ InitMemo /\ InitVisual

SpecResample == InitResample /\ [][NormalizeArray]_vars

\* ------------------------------------------------------------ memoization
\* normalizeArray(data, m, downsamplePeaks, memoize) with its cache.  An
\* object with keys is a function on the set of its keys.
FnPut(f, k, v) == [x \in (DOMAIN f) \cup {k} |-> IF x = k THEN v ELSE f[x]]

\* cache = dataMap.has(data) ? dataMap.get(data) : {}; dataMap.set(data, cache);
\* cache[mKey] = cache[mKey] || {}
ensureCache(dm, b, m) ==
  LET cache == IF b \in DOMAIN dm THEN dm[b] ELSE <<>>
  IN FnPut(dm, b, IF m \in DOMAIN cache THEN cache ELSE FnPut(cache, m, <<>>))

cacheHit_never(dm, b, m, peaks) == FALSE

\* if (cache[mKey][dKey]): an array was stored under the key (an array is
\* truthy whatever it holds).
cacheHit(dm, b, m, peaks) == peaks \in DOMAIN dm[b][m]

\* cache[mKey][dKey] = result
cacheStore(dm, b, m, peaks, id) == FnPut(dm, b, FnPut(dm[b], m, FnPut(dm[b][m], peaks, id)))

\* One call normalizeArray(data, m, downsamplePeaks, memoize) on buffer b.
NormalizeArrayCall(b, m, peaks, memoize) ==
  /\ nCalls < MaxCalls
  /\ nCalls' = nCalls + 1
  /\ lastCall' = [data |-> b, m |-> m, downsamplePeaks |-> peaks, memoize |-> memoize]
  /\ LET dm == IF memoize THEN ensureCache(dataMap, b, m) ELSE dataMap
         id == Len(arrays) + 1
     IN IF memoize /\ cacheHit(dm, b, m, peaks)
          THEN /\ returned' = dm[b][m][peaks]
               /\ dataMap' = dm
               /\ UNCHANGED arrays
          ELSE /\ arrays' = Append(arrays, normalizeArray(buffers[b], m, peaks))
               /\ returned' = id
               /\ dataMap' = IF memoize THEN cacheStore(dm, b, m, peaks, id) ELSE dm
  /\ UNCHANGED buffers
  /\ UNCHANGED <<sessVars, trackVars, attVars, evVars, uiVars, histVars, srvVars, nfVars, rsVars, vizVars>>

\* The owner of buffer b writes other samples into it.
WriteBuffer(b, d) ==
  /\ buffers[b] # d
  /\ buffers' = [buffers EXCEPT ![b] = d]
  /\ UNCHANGED <<dataMap, arrays, returned, lastCall, nCalls>>
  /\ UNCHANGED <<sessVars, trackVars, attVars, evVars, uiVars, histVars, srvVars, nfVars, rsVars, vizVars>>

BucketCounts == {1, 3}

NextMemo ==
  \/ \E b \in BufferIds, m \in BucketCounts, peaks \in BOOLEAN, memoize \in BOOLEAN :
       NormalizeArrayCall(b, m, peaks, memoize)
  \/ \E b \in BufferIds, d \in BufferContents : WriteBuffer(b, d)

SpecMemo == Init /\ [][NextMemo]_vars

\* ------------------------------------------------------------- drawBars
\* WavRenderer.drawBars (src/unnamed/part_001).  Pixel sizes and counts are
\* integers; heights are exact fractions where the code holds float32
\* values.
RECURSIVE GCD(_, _)
GCD(a, b) == IF b = 0 THEN a ELSE GCD(b, a % b)

\* The fraction in lowest terms.
Reduce(f) ==
  IF f.den = 0 THEN NaN
  ELSE LET g == GCD(Abs(f.num), f.den) IN [num |-> f.num \div g, den |-> f.den \div g]

\* analyser.fftSize = 256; frequencyBinCount is half of it.
fftSize == 256
frequencyBinCount == fftSize \div 2

\* The arguments render() passes: pointCount 10, barWidth 0, barSpacing 8.
RequestedBars == 10
RequestedBarWidth == 0
RequestedBarSpacing == 8

\* Math.max(0.02, average): the smallest height of a bar; and easing = 0.3.
minHeight == [num |-> 1, den |-> 50]
easing == [num |-> 3, den |-> 10]

\* Snapshots getFloatFrequencyData writes: every bin at one level (silence,
\* half scale, full scale) ...
LevelSpectra == {[i \in 1..frequencyBinCount |-> v] : v \in {NegInfinity, -65, -30}}
\* ... and one falling from full scale to below the floor.
Spectra == LevelSpectra \cup {[i \in 1..frequencyBinCount |-> -29 - i]}

RECURSIVE SumNums(_, _, _)
\* for (j = startIdx; j < endIdx; j++) sum += normalizedData[j], as the sum
\* of the numerators of d[from..to] (added up by halves: the sum of exact
\* fractions does not depend on the order).
SumNums(d, from, to) ==
  IF from > to THEN 0
  ELSE IF from = to THEN d[from].num
  ELSE LET mid == (from + to) \div 2 IN SumNums(d, from, mid) + SumNums(d, mid + 1, to)

\* Math.max(0.02, average); Math.max of a NaN is NaN.
targetHeight(average) ==
  IF average.den = 0 THEN NaN
  ELSE IF minHeight.den * average.num >= minHeight.num * average.den THEN average ELSE minHeight

\* prevHeight + (targetHeight - prevHeight) * easing; the difference of two
\* equal heights is 0 and the sum is the height itself.
ease(prevHeight, target) ==
  IF prevHeight.den = 0 \/ target.den = 0 THEN NaN
  ELSE IF prevHeight = target THEN target
  ELSE Reduce([num |-> (easing.den - easing.num) * prevHeight.num * target.den
                        + easing.num * target.num * prevHeight.den,
               den |-> easing.den * prevHeight.den * target.den])

\* pointCount = Math.floor(Math.min(pointCount, (canvas.width - barSpacing) /
\* (Math.max(barWidth, 1) + barSpacing))), and the same without the minimum
\* if that is 0.  pointCount is an integer, so the floor of the minimum is
\* the minimum with the floor of the quotient; \div rounds down as
\* Math.floor does.
barCount(width, pointCount, barWidth, barSpacing) ==
  LET fit == (width - barSpacing) \div (Max(barWidth, 1) + barSpacing)
      first == Min(pointCount, fit)
  IN IF first = 0 THEN fit ELSE first

\* drawBars(canvas, ctx, data, color, pointCount, barWidth, barSpacing,
\* center, prevHeights) without what is only painted.  new
\* Float32Array(pointCount) throws a RangeError for a negative length.
drawBars(canvas, data, pointCount, barWidth, barSpacing, prevHeights) ==
  LET count == barCount(canvas.width, pointCount, barWidth, barSpacing)
      width == IF barWidth = 0
                 THEN [num |-> (canvas.width - barSpacing) - barSpacing * count, den |-> count]
                 ELSE [num |-> barWidth, den |-> 1]
      normalizedData == normalizeFrequencyData(data)
      n == Len(normalizedData)
      samplesPerBar == IF count > 0 THEN n \div count ELSE 0
      height(i) ==
        LET startIdx == (i - 1) * samplesPerBar
            endIdx == Min(startIdx + samplesPerBar, n)
            average == IF endIdx = startIdx THEN NaN
                       ELSE Reduce([num |-> SumNums(normalizedData, startIdx + 1, endIdx),
                                    den |-> normalizedData[1].den * (endIdx - startIdx)])
            target == targetHeight(average)
            prevHeight == IF ~prevHeights.defined THEN target
                          ELSE IF i <= Len(prevHeights.values) THEN prevHeights.values[i]
                          ELSE NaN
        IN ease(prevHeight, target)
  IN IF count < 0
       THEN [threw |-> TRUE, pointCount |-> count, barWidth |-> width, heights |-> Undefined]
       ELSE [threw |-> FALSE, pointCount |-> count, barWidth |-> width,
             heights |-> Defined([i \in 1..count |-> height(i)])]

\* One call of drawBars with the arguments render() passes.
DrawBars ==
  /\ ~barsCalled
  /\ barsResult' = drawBars(barsCanvas, barsData, RequestedBars, RequestedBarWidth,
                            RequestedBarSpacing, barsPrev)
  /\ barsCalled' = TRUE
  /\ UNCHANGED <<barsCanvas, barsData, barsPrev>>
  /\ UNCHANGED <<sessVars, trackVars, attVars, evVars, uiVars, histVars>>
  /\ UNCHANGED <<srvVars, nfVars, rsVars, memoVars, tapVars, loopVars>>

\* drawBars applied to every canvas width from 1 to MaxWidth, every
\* snapshot, and no previous heights or those of a frame of minimal bars.
InitDrawBars ==
  /\ variant = 1 /\ InitHook /\ InitNormalizer /\ InitResampler /\ InitMemo
  /\ InitTap /\ InitLoop
  /\ barsCanvas \in [width : 1..MaxWidth, height : {DefaultCanvasHeight}]
  /\ barsData \in Spectra
  /\ barsPrev \in {Undefined, Defined([i \in 1..RequestedBars |-> minHeight])}
  /\ barsResult = NoResult
  /\ barsCalled = FALSE

SpecBars == InitDrawBars /\ [][DrawBars]_vars

\* ------------------------------------------------- analyzers and render
\* useWebRTCWaveRenderer (src/unnamed/part_001).

\* The MediaStreams handed to connectLocalStream and connectRemoteStream.
Streams == {1, 2}
\* The snapshots a render tick reads: silence or full scale in every bin.
TickSpectra == {[i \in 1..frequencyBinCount |-> v] : v \in {NegInfinity, -30}}

\* new Float32Array(analyser.frequencyBinCount): all zeros.
emptyDataArray == [i \in 1..frequencyBinCount |-> 0]

\* setupAnalyzer(stream): creates the AudioContext if there is none and
\* returns { analyser, dataArray } for the stream; id names the analyser.
setupAnalyzer(stream, id) ==
  [id |-> id, stream |-> stream, dataArray |-> emptyDataArray, prevHeights |-> Undefined]

\* connectLocalStream(stream) and connectRemoteStream(stream), called by
\* whoever holds the renderer's result.  On an AudioContext the cleanup has
\* closed createMediaStreamSource may throw (ok = FALSE), and the ref keeps
\* what it held.
ConnectStream(side, stream, ok) ==
  /\ nAnalyzers < MaxAnalyzers
  /\ ok \/ audioContext = "closed"
  /\ IF ok
       THEN /\ audioContext' = IF audioContext = "none" THEN "running" ELSE audioContext
            /\ nAnalyzers' = nAnalyzers + 1
            /\ IF side = "local"
                 THEN /\ localAnalyzerRef' = setupAnalyzer(stream, nAnalyzers + 1)
                      /\ UNCHANGED remoteAnalyzerRef
                 ELSE /\ remoteAnalyzerRef' = setupAnalyzer(stream, nAnalyzers + 1)
                      /\ UNCHANGED localAnalyzerRef
       ELSE UNCHANGED <<audioContext, nAnalyzers, localAnalyzerRef, remoteAnalyzerRef>>
  /\ UNCHANGED <<audioSrc, loopVars, barVars>>
  /\ UNCHANGED <<sessVars, trackVars, attVars, evVars, uiVars, histVars>>
  /\ UNCHANGED <<srvVars, nfVars, rsVars, memoVars>>

\* if (!canvas.width || !canvas.height) { canvas.width = canvas.offsetWidth;
\* canvas.height = canvas.offsetHeight }
sized(canvas, offset) == IF canvas.width = 0 \/ canvas.height = 0 THEN offset ELSE canvas

renderAnalyzer_rebuilt(binding, data, r) ==
  [id |-> binding.id + 1, stream |-> binding.stream, dataArray |-> data,
   prevHeights |-> IF r.threw THEN Undefined ELSE r.heights]

\* What render() does to the AudioAnalyzer a ref holds:
\* getFloatFrequencyData fills its dataArray, and its prevHeights becomes
\* the array drawBars returned, unless drawBars threw.
renderAnalyzer(binding, data, r) ==
  [binding EXCEPT !.dataArray = data,
                  !.prevHeights = IF r.threw THEN @ ELSE r.heights]

\* One run of render(): for each direction with an analyzer, size the
\* canvas if it has no size, read the snapshot and draw the bars; then
\* request the next frame.  An exception thrown by drawBars ends the run
\* where it is thrown, before the next frame is requested.
RenderTick(localData, remoteData) ==
  /\ isLoaded /\ rafPending
  /\ frames < MaxFrames
  /\ frames' = frames + 1
  /\ LET drawLocal == localAnalyzerRef # NoBinding
         lc == IF drawLocal THEN sized(localCanvas, offsetSize) ELSE localCanvas
         lr == drawBars(lc, localData, RequestedBars, RequestedBarWidth,
                        RequestedBarSpacing, localAnalyzerRef.prevHeights)
         localThrew == drawLocal /\ lr.threw
         drawRemote == remoteAnalyzerRef # NoBinding /\ ~localThrew
         rc == IF drawRemote THEN sized(remoteCanvas, offsetSize) ELSE remoteCanvas
         rr == drawBars(rc, remoteData, RequestedBars, RequestedBarWidth,
                        RequestedBarSpacing, remoteAnalyzerRef.prevHeights)
         remoteThrew == drawRemote /\ rr.threw
     IN /\ localCanvas' = lc
        /\ remoteCanvas' = rc
        /\ localAnalyzerRef' = IF drawLocal THEN renderAnalyzer(localAnalyzerRef, localData, lr)
                                             ELSE localAnalyzerRef
        /\ remoteAnalyzerRef' = IF drawRemote THEN renderAnalyzer(remoteAnalyzerRef, remoteData, rr)
                                               ELSE remoteAnalyzerRef
        /\ rafPending' = (~localThrew /\ ~remoteThrew)
  /\ UNCHANGED <<audioSrc, audioContext, nAnalyzers, isLoaded, offsetSize, barVars>>
  /\ UNCHANGED <<sessVars, trackVars, attVars, evVars, uiVars, histVars>>
  /\ UNCHANGED <<srvVars, nfVars, rsVars, memoVars>>

\* The effect's cleanup: isLoaded = false, cancelAnimationFrame, and
\* audioContext.close() if there is a context that is not closed.  The
\* analyzer refs are left as they are.
RendererCleanup ==
  /\ isLoaded
  /\ isLoaded' = FALSE
  /\ rafPending' = FALSE
  /\ audioContext' = IF audioContext = "running" THEN "closed" ELSE audioContext
  /\ UNCHANGED <<audioSrc, localAnalyzerRef, remoteAnalyzerRef, nAnalyzers>>
  /\ UNCHANGED <<frames, localCanvas, remoteCanvas, offsetSize, barVars>>
  /\ UNCHANGED <<sessVars, trackVars, attVars, evVars, uiVars, histVars>>
  /\ UNCHANGED <<srvVars, nfVars, rsVars, memoVars>>

\* Canvases: with the default bitmap size or with none yet, laid out
\* narrower than the bar spacing or wider.
UnsizedCanvas == [width |-> 0, height |-> 0]
Layouts == {[width |-> 5, height |-> 48], [width |-> 50, height |-> 48]}

InitRender ==
  /\ variant = 1 /\ InitHook /\ InitNormalizer /\ InitResampler /\ InitMemo
  /\ InitTap /\ InitBars
  /\ isLoaded = TRUE
  /\ rafPending = TRUE
  /\ frames = 0
  /\ localCanvas \in {DefaultCanvas, UnsizedCanvas}
  /\ remoteCanvas \in {DefaultCanvas, UnsizedCanvas}
  /\ offsetSize \in Layouts

\* The renderer with any caller of connectLocalStream/connectRemoteStream.
NextRender ==
  \/ \E side \in {"local", "remote"}, stream \in Streams, ok \in BOOLEAN :
       ConnectStream(side, stream, ok)
  \/ \E l, r \in TickSpectra : RenderTick(l, r)
  \/ RendererCleanup

SpecRender == InitRender /\ [][NextRender]_vars

\* ------------------------------------------------------- remote media
\* pc.ontrack of attempt a's transport: the remote stream arrives once the
\* answer has been applied.  The handler sets the <audio> element's
\* srcObject if the element is still there, and does nothing else: the hook
\* has five parameters, so the connectLocalStream and connectRemoteStream
\* the page passes as sixth and seventh argument are never called.
OnTrack(a) ==
  /\ pcState[a] = "open"
  /\ answer[a] = "valid"
  /\ pos[a] \in {"setRemoteDescription", "done"}
  /\ audioSrc' = IF mounted THEN a ELSE audioSrc
  /\ UNCHANGED <<audioContext, localAnalyzerRef, remoteAnalyzerRef, nAnalyzers>>
  /\ UNCHANGED <<sessVars, trackVars, attVars, evVars, uiVars, histVars>>
  /\ UNCHANGED <<srvVars, nfVars, rsVars, memoVars, loopVars, barVars>>

\* ------------------------------------------------------------------ Next

\* The continuations of connect()'s awaits.
Resume ==
  \/ \E a \in Attempts, r \in Outcomes : afterCredentialFetch(a, r)
  \/ \E a \in Attempts, ok \in BOOLEAN : afterCredentialJson(a, ok)
  \/ \E a \in Attempts, granted \in BOOLEAN : afterGetUserMedia(a, granted)
  \/ \E a \in Attempts, ok \in BOOLEAN : afterCreateOffer(a, ok)
  \/ \E a \in Attempts, ok \in BOOLEAN : afterSetLocalDescription(a, ok)
  \/ \E a \in Attempts, r \in Outcomes : afterSdpFetch(a, r)
  \/ \E a \in Attempts, r \in {"valid", "invalid", "rejected"} : afterSdpText(a, r)
  \/ \E a \in Attempts : afterSetRemoteDescription(a)

\* Sessions and the events they carry.
Next ==
  \/ connect(MaxSessions)
  \/ Resume
  \/ Disconnect
  \/ Unmount
  \/ \E e \in ClientEvents : SendEvent(e)
  \/ \E a \in Attempts, m \in ServerPayloads : onMessage(a, m)
  \/ \E a \in Attempts : ChannelOpens(a)

Spec == Init /\ [][Next]_vars

\* The session lifecycle alone, with more concurrent connect() attempts.
\* SendEvent, onMessage and ToggleMute write only realtimeEvents, wire,
\* sendResult, listenerThrew and isMuted, which no lifecycle action reads, so
\* leaving them out changes nothing a lifecycle action can do.
NextSession ==
  \/ connect(MaxAttempts)
  \/ Resume
  \/ Disconnect
  \/ Unmount
  \/ \E a \in Attempts : ChannelOpens(a)

SpecSession == Init /\ [][NextSession]_vars

\* Sessions and the Mute button.  ToggleMute writes only isMuted, which no
\* other action reads.
NextMute ==
  \/ connect(MaxSessions)
  \/ Resume
  \/ Disconnect
  \/ Unmount
  \/ \E a \in Attempts : ChannelOpens(a)
  \/ ToggleMute

SpecMute == Init /\ [][NextMute]_vars

\* Every operation of the page and of the hook together, with a reconnect
\* after a disconnect and with connect() calls in flight side by side.
NextAll ==
  \/ connect(MaxAttempts)
  \/ Resume
  \/ Disconnect
  \/ Unmount
  \/ \E e \in ClientEvents : SendEvent(e)
  \/ \E a \in Attempts, m \in ServerPayloads : onMessage(a, m)
  \/ \E a \in Attempts : ChannelOpens(a)
  \/ ToggleMute

SpecAll == Init /\ [][NextAll]_vars

\* Sessions and the media they carry.
NextAudio ==
  \/ connect(MaxSessions)
  \/ Resume
  \/ Disconnect
  \/ Unmount
  \/ \E a \in Attempts : ChannelOpens(a)
  \/ \E a \in Attempts : OnTrack(a)

SpecAudio == Init /\ [][NextAudio]_vars

\* The credential endpoint together with the session lifecycle: the outcome
\* of the client's credential fetch is the response the endpoint sent.
NextServer ==
  \/ connect(MaxSessions)
  \/ \E a \in Attempts : srvRequest(a)
  \/ \E a \in Attempts, r \in Outcomes : srvAfterUpstream(a, r)
  \/ \E a \in Attempts, ok \in BOOLEAN : srvAfterJson(a, ok)
  \/ \E a \in Attempts : fetchAnswered(a)
  \/ \E a \in Attempts : fetchRejected(a)
  \/ \E a \in Attempts, ok \in BOOLEAN : credentialRead(a, ok)
  \/ \E a \in Attempts, granted \in BOOLEAN : afterGetUserMedia(a, granted)
  \/ \E a \in Attempts, ok \in BOOLEAN : afterCreateOffer(a, ok)
  \/ \E a \in Attempts, ok \in BOOLEAN : afterSetLocalDescription(a, ok)
  \/ \E a \in Attempts, r \in Outcomes : afterSdpFetch(a, r)
  \/ \E a \in Attempts, r \in {"valid", "invalid", "rejected"} : afterSdpText(a, r)
  \/ \E a \in Attempts : afterSetRemoteDescription(a)
  \/ Disconnect
  \/ Unmount
  \/ \E a \in Attempts : ChannelOpens(a)

SpecServer == Init /\ [][NextServer]_vars

\* Spec with the progress the runtime guarantees: the promise of every await
\* settles and the event loop runs its continuation, and the browser opens
\* the data channel of an established connection.  What the user does
\* (connect, disconnect, sendEvent, unmount) and what the remote endpoint
\* sends is under no obligation.
SpecLive ==
  /\ Init /\ [][Next]_vars
  /\ WF_vars(Resume)
  /\ WF_vars(\E a \in Attempts : ChannelOpens(a))


\* ======================================================== claims C1 - C10
\* Transports that were created and not closed.
LiveTransports == {a \in Attempts : pcState[a] = "open"}

\* The channel the ref holds is open (read from the state, not through the
\* hook's own test).
RefChannelOpen == dataChannelRef # NoRef /\ dcState[dataChannelRef] = "open"

EventsOf(seq) == [i \in 1..Len(seq) |-> seq[i].event]
ClientEntries(events) == SelectSeq(events, LAMBDA x : x.source = "client")
ServerEntries(events) == SelectSeq(events, LAMBDA x : x.source = "server")
SentBySendEvent(w) == SelectSeq(w, LAMBDA x : x.by = "sendEvent")

\* The step appends a client-tagged entry / hands a sendEvent message to a channel.
ClientEntryAppended == Len(ClientEntries(realtimeEvents')) > Len(ClientEntries(realtimeEvents))
SendEventTransmitted == Len(SentBySendEvent(wire')) > Len(SentBySendEvent(wire))

\* The step in which attempt a ends with the given outcome.
Finishes(a, how) == outcome[a] = "pending" /\ outcome'[a] = how

\* C1: in every reachable state at most one transport that has been created
\* and not yet closed exists, whatever the interleaving of connect(),
\* disconnect() and their continuations.
C1_AtMostOneLiveTransport == Cardinality(LiveTransports) <= 1

\* C2: disconnect() is total and idempotent.  From every reachable state its
\* result has both handles null and isConnected false, the transport and the
\* channel the handles held are closed, and applying it to its own result
\* changes nothing; every step that clears the transport handle (disconnect(),
\* the unmount cleanup, the catch of connect()) and the unmount step itself
\* leave exactly that state.
C2_DisconnectIdempotentTotal ==
  /\ [](LET s1 == disconnect(Session)
        IN /\ s1.pcRef = NoRef /\ s1.dcRef = NoRef /\ s1.connected = FALSE
           /\ peerConnectionRef # NoRef => s1.pcs[peerConnectionRef] = "closed"
           /\ dataChannelRef # NoRef => s1.dcs[dataChannelRef] = "closed"
           /\ disconnect(s1) = s1)
  /\ [][(mounted /\ ~mounted') \/ (peerConnectionRef # NoRef /\ peerConnectionRef' = NoRef)
          => /\ peerConnectionRef' = NoRef /\ dataChannelRef' = NoRef /\ isConnected' = FALSE
             /\ peerConnectionRef # NoRef => pcState'[peerConnectionRef] = "closed"
             /\ dataChannelRef # NoRef => dcState'[dataChannelRef] = "closed"]_vars

\* C2 witness: a session that was connected has been torn down.
C2_Witness ==
  \E a \in Attempts :
    /\ outcome[a] = "connected" /\ pcState[a] = "closed" /\ dcState[a] = "closed"
    /\ peerConnectionRef = NoRef /\ dataChannelRef = NoRef /\ ~isConnected

\* C3: an attempt whose credential fetch answered with a non-success status
\* never has a transport or a channel, and the step in which it ends leaves
\* isConnected false and both handles null.
C3_CredentialFailureLeavesIdle ==
  /\ [](\A a \in Attempts :
          outcome[a] = "credentialNotOk" => pcState[a] = "none" /\ dcState[a] = "none")
  /\ [][\A a \in Attempts :
          Finishes(a, "credentialNotOk")
            => isConnected' = FALSE /\ peerConnectionRef' = NoRef /\ dataChannelRef' = NoRef]_vars

\* C3 witness: an attempt has ended on a non-success credential answer.
C3_Witness ==
  \E a \in Attempts :
    /\ outcome[a] = "credentialNotOk" /\ pos[a] = "done"
    /\ pcState[a] = "none" /\ peerConnectionRef = NoRef /\ ~isConnected

\* C4: whenever an attempt fails after it has created its transport, the step
\* in which it ends leaves that transport and its channel closed, both handles
\* null and isConnected false.
C4_FailureAfterTransportTearsDown ==
  [][\A a \in Attempts :
       Finishes(a, "failed") /\ pcState[a] # "none"
         => /\ pcState'[a] = "closed" /\ dcState'[a] = "closed"
            /\ peerConnectionRef' = NoRef /\ dataChannelRef' = NoRef
            /\ isConnected' = FALSE]_vars

\* C5: microphone denial is not fatal.  The step in which getUserMedia's
\* rejection is handled changes nothing of the session (no handle cleared,
\* nothing closed, isConnected untouched) and moves the attempt on to the
\* offer; a denied attempt never has a local track; and when it ends
\* connected, isConnected becomes true and the handles stay as they were.
C5_MicDenialNonFatal ==
  /\ [](\A a \in Attempts : micDenied[a] => ~trackAttached[a])
  /\ [][\A a \in Attempts :
          /\ ~micDenied[a] /\ micDenied'[a]
               => pos'[a] = "createOffer" /\ UNCHANGED sessVars
          /\ micDenied[a] /\ Finishes(a, "connected")
               => /\ isConnected' = TRUE
                  /\ UNCHANGED <<peerConnectionRef, dataChannelRef, pcState, dcState>>]_vars

\* C5 witness: an attempt whose microphone was denied is connected, holds
\* both handles and has no local track.
C5_Witness ==
  \E a \in Attempts :
    /\ micDenied[a] /\ outcome[a] = "connected" /\ isConnected
    /\ peerConnectionRef = a /\ dataChannelRef = a /\ pcState[a] = "open"
    /\ ~trackAttached[a]

\* C6: no step taken while the channel handle is null or its channel is not
\* open appends a client-tagged entry or transmits a sendEvent message, and a
\* sendEvent call made in such a state leaves the event sequence and the
\* channel traffic as they were.
C6_ClosedSendIsNoOp ==
  [][~RefChannelOpen
       => /\ ~ClientEntryAppended
          /\ ~SendEventTransmitted
          /\ sendResult' # sendResult => realtimeEvents' = realtimeEvents /\ wire' = wire]_vars

\* C6 witness: sendEvent was called and dropped while the channel handle was
\* set and its channel still connecting.
C6_Witness ==
  /\ sendResult = "silentlyDropped"
  /\ dataChannelRef # NoRef /\ dcState[dataChannelRef] = "connecting"
  /\ ClientEntries(realtimeEvents) = <<>> /\ SentBySendEvent(wire) = <<>>

\* C7: a sendEvent call made while the channel is not open surfaces an error
\* to its caller: it never returns as a silent no-op.
C7_ClosedSendSurfacesError == sendResult # "silentlyDropped"

\* C8: the client-tagged entries of the event sequence are, in order, exactly
\* the events sendEvent transmitted; a sendEvent call that sends, and every
\* step that adds a client entry or a sendEvent transmission, adds exactly one
\* entry for the event and transmits it exactly once, on the channel the
\* handle holds.
C8_OpenSendTransmitsAndRecordsOnce ==
  /\ [](EventsOf(ClientEntries(realtimeEvents)) = EventsOf(SentBySendEvent(wire)))
  /\ [][(sendResult # "sent" /\ sendResult' = "sent") \/ ClientEntryAppended \/ SendEventTransmitted
          => /\ RefChannelOpen
             /\ \E e \in ClientEvents :
                  /\ realtimeEvents' = Append(realtimeEvents, [source |-> "client", event |-> e])
                  /\ wire' = Append(wire, [dc |-> dataChannelRef, by |-> "sendEvent", event |-> e])]_vars

\* C8 witness: an event was sent on an open channel and recorded.
C8_Witness ==
  /\ sendResult = "sent"
  /\ Len(ClientEntries(realtimeEvents)) >= 1
  /\ Len(SentBySendEvent(wire)) >= 1

\* C9: whenever the mute flag is true, every local audio track attached to a
\* live transport is disabled.
C9_MutedTrackDisabled ==
  \A a \in Attempts : isMuted /\ trackAttached[a] /\ pcState[a] = "open" => ~trackEnabled[a]

\* C10: a registered tool's handler has been invoked exactly once for every
\* function-call completion naming a registered tool that a channel delivered,
\* and for nothing else.
C10_RegisteredCallInvokesHandler ==
  toolInvocations =
    Len(SelectSeq(ServerEntries(realtimeEvents), LAMBDA x : IsRegisteredCall(x.event)))


\* ======================================================= claims C11 - C20
\* C11: a payload that is not JSON is isolated.  Nothing is ever appended for
\* it; the step in which the listener fails on it leaves the event sequence,
\* the handles, the transport, the channel and isConnected as they were; and
\* after such a failure every JSON payload an open channel delivers is still
\* appended, tagged 'server'.
C11_MalformedPayloadIsolated ==
  /\ [](\A i \in 1..Len(realtimeEvents) : realtimeEvents[i].event \in ClientEvents \cup JsonPayloads)
  /\ [][~listenerThrew /\ listenerThrew' => UNCHANGED <<realtimeEvents, sessVars>>]_vars
  /\ [](listenerThrew =>
          \A a \in Attempts, m \in JsonPayloads :
            dcState[a] = "open" /\ Len(realtimeEvents) < MaxEvents
              => ENABLED (/\ onMessage(a, m)
                          /\ realtimeEvents' = Append(realtimeEvents, [source |-> "server", event |-> m])))

\* C11 witness: a listener has failed on a malformed payload, the session is
\* still connected on an open channel and a server event is in the sequence.
C11_Witness ==
  /\ listenerThrew /\ isConnected /\ RefChannelOpen
  /\ peerConnectionRef # NoRef /\ pcState[peerConnectionRef] = "open"
  /\ Len(ServerEntries(realtimeEvents)) >= 1

\* A session.update of attempt a was handed to its channel.
SessionUpdateSent(a) == \E i \in 1..Len(wire) : wire[i] = sessionUpdate(a)

\* C12: for every attempt that reaches Connected, once its channel is open a
\* session.update carrying the instructions and the tool schemas is eventually
\* emitted on it (unless the channel is closed first).
C12_SessionUpdateEventuallySent ==
  \A a \in Attempts :
    (outcome[a] = "connected" /\ dcState[a] = "open")
      ~> (SessionUpdateSent(a) \/ dcState[a] = "closed")

\* C13: stale-session protection.  When disconnect() was called while an
\* attempt was suspended at an await and no connect() call has started an
\* attempt since, the session stays torn down after the attempt resumes: both
\* handles are null, no live transport exists and isConnected is false.
C13_StaleAttemptStaysTornDown ==
  \A a \in Attempts :
    disconnectedDuring[a] /\ nAttempts = a
      => /\ peerConnectionRef = NoRef /\ dataChannelRef = NoRef
         /\ LiveTransports = {}
         /\ ~isConnected

\* C14: the event sequence keeps the order of each direction.  Its
\* client-tagged entries are, in order, the events the sendEvent calls
\* transmitted, and its server-tagged entries are, in order, the JSON payloads
\* the channels delivered: none reordered, duplicated or lost.
C14_PerDirectionOrder ==
  /\ EventsOf(ClientEntries(realtimeEvents)) = EventsOf(SentBySendEvent(wire))
  /\ EventsOf(ServerEntries(realtimeEvents)) = delivered

\* C14 witness: two different events of one direction are in the sequence.
C14_Witness ==
  /\ Len(realtimeEvents) >= 2
  /\ realtimeEvents[1].source = realtimeEvents[2].source
  /\ realtimeEvents[1].event # realtimeEvents[2].event
  /\ realtimeEvents[1].source = "server" => delivered = <<realtimeEvents[1].event, realtimeEvents[2].event>>

\* C15: the credential endpoint answers a request at most once and, when its
\* handler has ended, exactly once: with status 2xx and the upstream
\* credential when the upstream call succeeded, with status 500 and no
\* credential when the upstream call answered non-OK, threw or had an
\* unreadable body; and an attempt whose request was answered with a non-2xx
\* status never has a transport and never ends connected.
C15_EndpointAnswersOnce ==
  \A a \in Attempts :
    /\ Len(srvResponses[a]) <= 1
    /\ srvPos[a] = "done" <=> Len(srvResponses[a]) = 1
    /\ Len(srvResponses[a]) = 1 =>
         LET r == srvResponses[a][1]
         IN /\ srvUpstream[a] = "ok" => r.status \in 200..299 /\ r.credential
            /\ srvUpstream[a] # "ok" => r.status = 500 /\ ~r.credential
            /\ r.status \notin 200..299 =>
                 pcState[a] = "none" /\ dcState[a] = "none" /\ outcome[a] # "connected"

\* C15 witness: a request was answered with 500 after the upstream call
\* answered non-OK, and the attempt ended without a session.
C15_Witness ==
  \E a \in Attempts :
    /\ srvUpstream[a] = "notOk" /\ srvResponses[a] = <<[status |-> 500, credential |-> FALSE]>>
    /\ pos[a] = "done" /\ outcome[a] = "credentialNotOk"
    /\ peerConnectionRef = NoRef /\ ~isConnected

\* C16: amplitude normalization returns an array of the length of its input;
\* every value of it is in [0,1]; a sample of -100 dB or less gives 0 and one
\* of -30 dB or more gives 1; and of two samples the one with the lower
\* decibel value never gets the higher normalized value.
C16_NormalizationClampedMonotone ==
  nfCalled =>
    /\ Len(normalized) = Len(freqData)
    /\ \A i \in 1..Len(freqData) :
         /\ normalized[i].den > 0
         /\ 0 <= normalized[i].num /\ normalized[i].num <= normalized[i].den
         /\ freqData[i] <= -100 => normalized[i].num = 0
         /\ freqData[i] >= -30 => normalized[i].num = normalized[i].den
    /\ \A i, j \in 1..Len(freqData) :
         freqData[i] < freqData[j]
           => normalized[i].num * normalized[j].den <= normalized[j].num * normalized[i].den

\* C16 witness: a snapshot with a silent bin, a bin inside the range and a
\* bin above it has been normalized, the bin inside the range strictly
\* between 0 and 1.
C16_Witness ==
  /\ nfCalled
  /\ \E i, j \in 1..Len(freqData) :
       /\ freqData[i] > -100 /\ freqData[i] < -30
       /\ 0 < normalized[i].num /\ normalized[i].num < normalized[i].den
       /\ freqData[j] > -30 /\ normalized[j].num = normalized[j].den

\* The inputs i*m/n puts into bucket b (both counted from 0).
InputsOfBucket(b) == {i \in 0..(Len(rsData) - 1) : (i * rsM) \div Len(rsData) = b}

\* C17: for a buffer of n samples and 1 <= m <= n buckets, averaging-mode
\* resampling returns exactly m values; bucket b is the sum of |data[i]| over
\* the inputs i with floor(i*m/n) = b divided by their number, which is never
\* zero; and every value is in [0, max |input|].
C17_AveragingBuckets ==
  rsCalled /\ ~rsPeaks /\ 1 <= rsM /\ rsM <= Len(rsData) =>
    /\ Len(rsResult) = rsM
    /\ \A b1 \in 1..Len(rsResult) :
         /\ rsResult[b1].den > 0
         /\ rsResult[b1].den = Cardinality(InputsOfBucket(b1 - 1))
         /\ rsResult[b1].num = SumAbs(rsData, InputsOfBucket(b1 - 1))
         /\ 0 <= rsResult[b1].num
         /\ rsResult[b1].num <= MaxAbs(rsData, 0..(Len(rsData) - 1)) * rsResult[b1].den

\* An array is cached for buffer b under the key (m, peaks).
Cached(b, m, peaks) ==
  /\ b \in DOMAIN dataMap
  /\ m \in DOMAIN dataMap[b]
  /\ peaks \in DOMAIN dataMap[b][m]

\* C18: a memoized call stores the array it returns under its buffer and
\* key; what is stored under a key never changes, nor does an allocated array;
\* and a memoized call on a buffer and key that have an array stored returns
\* that very array and allocates (computes) nothing, whatever calls and buffer
\* writes came in between.
C18_MemoizedCallReturnsCachedArray ==
  /\ [](lastCall.memoize =>
          /\ Cached(lastCall.data, lastCall.m, lastCall.downsamplePeaks)
          /\ dataMap[lastCall.data][lastCall.m][lastCall.downsamplePeaks] = returned)
  /\ [][/\ \A b \in BufferIds, m \in BucketCounts, peaks \in BOOLEAN :
             Cached(b, m, peaks) => dataMap'[b][m][peaks] = dataMap[b][m][peaks]
         /\ \A id \in 1..Len(arrays) : id <= Len(arrays') /\ arrays'[id] = arrays[id]
         /\ nCalls' # nCalls /\ lastCall'.memoize
               /\ Cached(lastCall'.data, lastCall'.m, lastCall'.downsamplePeaks)
               => /\ returned' = dataMap[lastCall'.data][lastCall'.m][lastCall'.downsamplePeaks]
                  /\ arrays' = arrays]_vars

\* C18 witness: the third call, memoized, returned the array of the first
\* call although the buffer holds other samples by now; the call in between
\* allocated the second array.
C18_Witness ==
  /\ nCalls = 3 /\ lastCall.memoize /\ returned = 1 /\ Len(arrays) = 2
  /\ arrays[1] # normalizeArray(buffers[lastCall.data], lastCall.m, lastCall.downsamplePeaks)

\* C19: an attempt A that was superseded (disconnect() was called while it
\* was suspended, and a newer attempt B has created the session the handles
\* hold) never tears B's session down: no step of A closes B's transport or
\* channel, clears or overwrites the handles, or changes isConnected.
C19_SupersededAttemptLeavesNewerSession ==
  [][\A A, B \in Attempts :
       /\ A < B /\ disconnectedDuring[A] /\ ~disconnectedDuring[B]
       /\ pcState[B] = "open" /\ peerConnectionRef = B /\ dataChannelRef = B
       /\ pos'[A] # pos[A]
       => /\ pcState'[B] = pcState[B] /\ dcState'[B] = dcState[B]
          /\ peerConnectionRef' = B /\ dataChannelRef' = B
          /\ isConnected' = isConnected]_vars

\* The session.update messages handed to attempt a's channel.
SessionUpdates(a) == SelectSeq(wire, LAMBDA x : x.event = "session.update" /\ x.dc = a)

C21_EventSequenceAppendOnly ==
  [][/\ Len(realtimeEvents') >= Len(realtimeEvents)
     /\ SubSeq(realtimeEvents', 1, Len(realtimeEvents)) = realtimeEvents]_vars

\* C21 witness: an event sent on the channel of a first session is still
\* the first entry after that session was closed, a second attempt
\* connected, and a server event arrived on the second session's channel.
C21_Witness ==
  \E a, b \in Attempts :
    /\ a < b
    /\ outcome[a] = "connected" /\ pcState[a] = "closed"
    /\ outcome[b] = "connected" /\ isConnected /\ peerConnectionRef = b
    /\ Len(wire) >= 1 /\ wire[1].dc = a /\ wire[1].by = "sendEvent"
    /\ Len(realtimeEvents) = 2
    /\ realtimeEvents[1] = [source |-> "client", event |-> wire[1].event]
    /\ realtimeEvents[2].source = "server"

\* The awaits of connect() in the order of the source text; pos[a] names the
\* await attempt a is suspended at.
StepsOfConnect ==
  <<"unused", "fetch", "json", "getUserMedia", "createOffer", "setLocalDescription",
    "sdpFetch", "sdpText", "setRemoteDescription", "done">>

Rank(p) == CHOOSE i \in 1..Len(StepsOfConnect) : StepsOfConnect[i] = p

\* C22: within one connect() attempt the steps come in a fixed order: an
\* attempt only moves to the next await or ends; its transport and channel
\* are created in the step that has read the credential (the hook that is
\* given a long-lived key creates them at once) and that step is the one
\* that requests the microphone; the offer is posted only by the step that
\* follows a successful setLocalDescription; and isConnected turns true, and
\* an attempt counts as connected, only in the continuation of that
\* attempt's setRemoteDescription with an accepted answer on an open pc.
C22_FixedStepOrder ==
  /\ [][\A a \in Attempts :
          /\ pos'[a] # pos[a] =>
                \/ pos[a] # "unused" /\ pos'[a] = "done"
                \/ Rank(pos'[a]) = Rank(pos[a]) + 1
                \/ variant = 2 /\ pos[a] = "unused" /\ pos'[a] = "getUserMedia"
          /\ (pcState[a] = "none" /\ pcState'[a] # "none") =>
                pos[a] = (IF variant = 1 THEN "json" ELSE "unused")
          /\ (pos[a] # "getUserMedia" /\ pos'[a] = "getUserMedia") =>
                /\ pcState[a] = "none" /\ pcState'[a] = "open"
                /\ dcState[a] = "none" /\ dcState'[a] = "connecting"
          /\ (pos[a] # "sdpFetch" /\ pos'[a] = "sdpFetch") =>
                pos[a] = "setLocalDescription" /\ pcState[a] = "open"
          /\ (outcome[a] # "connected" /\ outcome'[a] = "connected") =>
                /\ pos[a] = "setRemoteDescription" /\ answer[a] = "valid"
                /\ pcState[a] = "open" /\ isConnected']_vars
  /\ [][(~isConnected /\ isConnected') =>
          \E a \in Attempts :
            /\ pos[a] = "setRemoteDescription" /\ answer[a] = "valid"
            /\ pcState[a] = "open" /\ outcome'[a] = "connected"]_vars

\* C22 witness: in the hook with the credential fetch one attempt went
\* through every step and is connected while a second one, started beside
\* it, is still waiting for the negotiation endpoint.
C22_Witness ==
  \E a, b \in Attempts :
    /\ variant = 1 /\ a # b
    /\ pos[a] = "done" /\ outcome[a] = "connected" /\ answer[a] = "valid" /\ isConnected
    /\ pos[b] = "sdpFetch" /\ pcState[b] = "open"

\* C23: in every state in which remote media of a session has been routed
\* to the audio output, a remote analyzer binding for that stream exists,
\* and in every state in which a session holds the granted microphone
\* stream, a local analyzer binding exists.
C23_StreamsBoundToAnalyzers ==
  /\ audioSrc # NoRef =>
        remoteAnalyzerRef # NoBinding /\ remoteAnalyzerRef.stream = audioSrc
  /\ \A a \in Attempts :
        (trackAttached[a] /\ pcState[a] = "open") => localAnalyzerRef # NoBinding

\* C24: for every canvas width >= 1 and the configured bar count, bar width
\* and bar spacing, drawBars raises no error, the bar count it computes is
\* an integer from 0 to the requested count, the bars fit (spacing + count *
\* (barWidth + spacing) <= width, for the width of at least 1 the count is
\* computed with and for the width the bars are drawn with), and the array
\* returned has exactly that many heights.
C24_BarCountFitsCanvas ==
  barsCalled =>
    LET r == barsResult
        count == r.pointCount
        spacing == RequestedBarSpacing
    IN /\ ~r.threw
       /\ count \in 0..RequestedBars
       /\ spacing + count * (Max(RequestedBarWidth, 1) + spacing) <= barsCanvas.width
       /\ count > 0 =>
             spacing * r.barWidth.den + count * (r.barWidth.num + spacing * r.barWidth.den)
               <= barsCanvas.width * r.barWidth.den
       /\ r.heights.defined /\ Len(r.heights.values) = count

\* C25 as stated: a render tick leaves both analyzer bindings exactly as
\* they were (it creates, replaces, destroys and mutates nothing); only
\* connectLocalStream / connectRemoteStream and the teardown write them.
C25_RenderTickReadsOnly ==
  [][frames' # frames =>
       /\ localAnalyzerRef' = localAnalyzerRef
       /\ remoteAnalyzerRef' = remoteAnalyzerRef]_vars

\* C25 amended: a render tick never creates, replaces or destroys a binding:
\* each ref holds the same analyser for the same stream after the tick, no
\* analyser is created and the audio context is untouched; a ref changes
\* hands only in a step that creates an analyser, which is never a render
\* tick, and the cleanup leaves both refs alone.
C25_RenderTickKeepsBindings ==
  /\ [][frames' # frames =>
          /\ localAnalyzerRef'.id = localAnalyzerRef.id
          /\ localAnalyzerRef'.stream = localAnalyzerRef.stream
          /\ remoteAnalyzerRef'.id = remoteAnalyzerRef.id
          /\ remoteAnalyzerRef'.stream = remoteAnalyzerRef.stream
          /\ nAnalyzers' = nAnalyzers
          /\ audioContext' = audioContext]_vars
  /\ [][(localAnalyzerRef'.id # localAnalyzerRef.id \/ remoteAnalyzerRef'.id # remoteAnalyzerRef.id) =>
          /\ nAnalyzers' = nAnalyzers + 1
          /\ frames' = frames]_vars
  /\ [][isLoaded # isLoaded' =>
          /\ localAnalyzerRef' = localAnalyzerRef
          /\ remoteAnalyzerRef' = remoteAnalyzerRef]_vars

\* C25 witness: render ticks ran between and after two connectLocalStream
\* calls: the local ref holds the second analyser, with heights a tick
\* stored in it, and two frames were rendered.
C25_Witness ==
  /\ frames = MaxFrames
  /\ localAnalyzerRef.id = 2
  /\ localAnalyzerRef.prevHeights.defined
  /\ Len(localAnalyzerRef.prevHeights.values) = RequestedBars

\* C26: between any two steps the transport handle and the channel handle
\* are both null, or both set with the channel created on that transport;
\* and isConnected implies that both are set and the transport they refer
\* to has not been closed.
C26_HandlesConsistent ==
  /\ (peerConnectionRef = NoRef) <=> (dataChannelRef = NoRef)
  /\ peerConnectionRef # NoRef => dataChannelRef = peerConnectionRef
  /\ isConnected =>
        /\ peerConnectionRef # NoRef
        /\ dataChannelRef # NoRef
        /\ pcState[peerConnectionRef] = "open"

====
